---- MODULE Spec2Model ----
(***************************************************************************)
(* compute_derived_state_vars (VIC, drivers/shared_all): the derived soil  *)
(* layer and soil thermal node state of one grid cell, rebuilt from the    *)
(* stored state.  One call of the function is one behaviour: the two       *)
(* veg/band loop nests are walked tile by tile, one action per statement   *)
(* of the loop bodies.                                                     *)
(*                                                                         *)
(* Units of the numeric inputs (exact fixed point, no rounding):           *)
(*   global_param.dt and dt_thresh  in 1/1000,                             *)
(*   soil_con.dz_node[1]            in 1/100,                              *)
(*   Cs_node, kappa_node            in units.                              *)
(***************************************************************************)
EXTENDS Integers, Sequences, FiniteSets, Bags

\* ---- bounds of the model -------------------------------------------------
\* veg_con[0].vegetat_type_num: vegetation indices run over 0..Nveg
Nveg == 1
\* options.SNOW_BAND
SNOW_BAND == 2
\* options.Nlayer, options.Nfrost, options.Nnode
Nlayer == 2
Nfrost == 1
Nnode == 2

Vegs == 0 .. Nveg
Bands == 0 .. (SNOW_BAND - 1)
Layers == 0 .. (Nlayer - 1)
FrostAreas == 0 .. (Nfrost - 1)
Nodes == 0 .. (Nnode - 1)

\* return codes of the delegated computations
OK == "OK"
ERROR == "ERROR"

\* content of the locals FIRST_VEG and ErrorFlag before their first assignment
Uninit == "uninit"

\* content of an element of the scratch arrays moist and ice that no
\* statement has assigned yet; no value the layers hold is negative
UninitDouble == -1000

\* signs of a cover fraction / band area fraction
Fractions == {-1, 0, 1}

VARIABLES
    options,       \* FULL_ENERGY, FROZEN_SOIL, QUICK_FLUX, IMPLICIT
    global_param,  \* dt
    soil_con,      \* AreaFract, FS_ACTIVE, dz_node, node parameters, ...
    veg_con,       \* veg_con[veg].Cv
    cell,          \* all_vars->cell[veg][band]
    energy,        \* all_vars->energy[veg][band]
    moist,         \* local scratch moist[veg][band][lidx]
    ice,           \* local scratch ice[veg][band][lidx][frost_area]
    FIRST_VEG,     \* local latch
    veg, band,     \* loop indices
    dt_thresh,     \* local, a rational <<numerator, denominator>>
    ErrorFlag,     \* local, the value the last delegated computation returned
    pc,            \* position in the function body
    ran            \* history: the bag of steps run, <<step, veg, band>> each

vars == <<options, global_param, soil_con, veg_con, cell, energy, moist, ice,
          FIRST_VEG, veg, band, dt_thresh, ErrorFlag, pc, ran>>

inputs == <<options, global_param, veg_con>>

\* the steps of the two loop bodies
Steps == {"snapshot", "compute_runoff_and_asat", "wrap_compute_zwt",
          "set_node_parameters", "distribute_node_moisture_properties",
          "stability_check", "stability_advisory", "writeback",
          "estimate_layer_ice_content_quick_flux",
          "estimate_layer_ice_content", "find_0_degree_fronts"}

\* the history r with one more run of step s for tile (v, b)
Ran(r, v, b, s) == r (+) SetToBag({<<s, v, b>>})

\* lines 52-54: moist[MAX_VEG][MAX_BANDS][MAX_LAYERS] and
\* ice[MAX_VEG][MAX_BANDS][MAX_LAYERS][MAX_FROST_AREAS]; element
\* [v][b][l][f] lies inside the arrays declared with the maxima cap
InScratch(cap, v, b, l, f) ==
    /\ v < cap.MAX_VEG
    /\ b < cap.MAX_BANDS
    /\ l < cap.MAX_LAYERS
    /\ f < cap.MAX_FROST_AREAS

\* the steps that read or write moist[veg][band][..] or ice[veg][band][..][..]
\* (lines 78-84, 89, 136, 187-193)
ScratchSteps == {"snapshot", "compute_runoff_and_asat",
                 "distribute_node_moisture_properties", "writeback"}

\* ---- state at entry ------------------------------------------------------
\* stored layer moisture and ice of a tile: distinct for every element
InitMoist(v, b, l) == 100 + 20 * v + 5 * b + l
InitIce(v, b, l, f) == 10 + 8 * v + 4 * b + 2 * l + f
\* stored node temperatures, warmer with depth and with the vegetation index,
\* colder with the band: tile (0, 0) is frozen at the surface node only,
\* tile (0, 1) at nodes 0 and 1, the tiles of vegetation index 1 are thawed
InitT(v, b, n) == n - 1 - b + 2 * v

InitCell ==
    [v \in Vegs |-> [b \in Bands |->
        [layer |-> [l \in Layers |->
                      [moist |-> InitMoist(v, b, l),
                       ice |-> [f \in FrostAreas |-> InitIce(v, b, l, f)]]],
         asat |-> -1,
         zwt |-> -1]]]

InitEnergy ==
    [v \in Vegs |-> [b \in Bands |->
        [T |-> [n \in Nodes |-> InitT(v, b, n)],
         moist |-> [n \in Nodes |-> -1],
         ice |-> [n \in Nodes |-> -1],
         kappa_node |-> [n \in Nodes |-> 1],
         Cs_node |-> [n \in Nodes |-> 0],
         fronts |-> -1]]]

Init ==
    /\ options \in [FULL_ENERGY : BOOLEAN, FROZEN_SOIL : BOOLEAN,
                    QUICK_FLUX : BOOLEAN, IMPLICIT : BOOLEAN]
    /\ global_param \in [dt : {10, 11}]
    /\ soil_con \in [AreaFract : [Bands -> Fractions],
                     FS_ACTIVE : BOOLEAN,
                     dz_node : {[n \in Nodes |-> 10]},
                     soil_density : {2},
                     quartz : {1},
                     depth : {[l \in Layers |-> 3 + l]},
                     max_moist_node : {[n \in Nodes |-> 0]}]
    /\ veg_con \in [Vegs -> [Cv : Fractions]]
    /\ cell = InitCell
    /\ energy = InitEnergy
    /\ moist = [v \in Vegs |-> [b \in Bands |->
                   [l \in Layers |-> UninitDouble]]]
    /\ ice = [v \in Vegs |-> [b \in Bands |->
                 [l \in Layers |-> [f \in FrostAreas |-> UninitDouble]]]]
    /\ FIRST_VEG = Uninit
    /\ veg = 0
    /\ band = 0
    /\ dt_thresh = <<0, 1>>
    /\ pc = "p1_loop"
    /\ ErrorFlag = Uninit
    /\ ran = EmptyBag

\* ---- tile selection (the loop nests of lines 68-75 and 103-110) ----------
\* line 72 / 107: if (Cv > 0)
CvSelected(v) == veg_con[v].Cv > 0

\* variant of BandSelected: the test written != 0 instead of > 0
BandSelected_NonZero(b) == soil_con.AreaFract[b] # 0

\* line 75 / 110: if (soil_con->AreaFract[band] > 0.)
BandSelected(b) == soil_con.AreaFract[b] > 0

\* value of <<veg, band>> once both loops have run out
LoopEnd == <<Nveg + 1, 0>>

\* variant of NextTile: the veg loop stops short of index Nveg (veg < Nveg)
RECURSIVE NextTile_NoBareSoil(_, _)
NextTile_NoBareSoil(v, b) ==
    IF v >= Nveg THEN LoopEnd
    ELSE IF ~CvSelected(v) THEN NextTile_NoBareSoil(v + 1, 0)
    ELSE IF b >= SNOW_BAND THEN NextTile_NoBareSoil(v + 1, 0)
    ELSE IF BandSelected(b) THEN <<v, b>>
    ELSE NextTile_NoBareSoil(v, b + 1)

\* The first tile at or after (v, b), vegetation index major and band index
\* minor, whose loop body runs; LoopEnd when the veg loop runs out.
RECURSIVE NextTile(_, _)
NextTile(v, b) ==
    IF v > Nveg THEN LoopEnd
    ELSE IF ~CvSelected(v) THEN NextTile(v + 1, 0)
    ELSE IF b >= SNOW_BAND THEN NextTile(v + 1, 0)
    ELSE IF BandSelected(b) THEN <<v, b>>
    ELSE NextTile(v, b + 1)

\* ---- delegated computations (defined outside this source file) ----------
RECURSIVE SumTo(_, _)
SumTo(f, n) == IF n < 0 THEN 0 ELSE f[n] + SumTo(f, n - 1)

\* log_err: writes the message and ends the process; control does not
\* return to the statement after it.  Its value is the position reached.
log_err == "exit"

\* compute_runoff_and_asat: saturated area from the column handed to it
compute_runoff_and_asat(sc, m) == SumTo(m, Nlayer - 1) % 100

\* wrap_compute_zwt: water table of a cell from its layer moistures
wrap_compute_zwt(sc, c) ==
    SumTo([l \in Layers |-> c.layer[l].moist], Nlayer - 1) + sc.depth[0]

\* set_node_parameters: the node-level parameters, from the layer properties
set_node_parameters(sc) ==
    [sc EXCEPT !.max_moist_node =
        [n \in Nodes |-> 10 * sc.depth[IF n < Nlayer THEN n ELSE Nlayer - 1]]]

\* distribute_node_moisture_properties: node moisture, ice, conductivity
\* and heat capacity of a tile; a frozen node conducts twice as well
distribute_node_moisture_properties(e, sc, m) ==
    [e EXCEPT !.moist = [n \in Nodes |-> m[IF n < Nlayer THEN n ELSE Nlayer - 1]],
              !.ice = [n \in Nodes |-> IF e.T[n] < 0 THEN 1 ELSE 0],
              !.kappa_node = [n \in Nodes |->
                                IF e.T[n] < 0 THEN 2 * sc.quartz ELSE sc.quartz],
              !.Cs_node = [n \in Nodes |-> sc.soil_density]]

\* estimate_layer_ice_content_quick_flux: layer ice from the two node
\* temperatures nearest the surface
estimate_layer_ice_content_quick_flux(layer, T0, T1) ==
    [l \in Layers |->
        [layer[l] EXCEPT !.ice =
            [f \in FrostAreas |->
                IF T0 < 0 \/ T1 < 0 THEN layer[l].moist \div 2 ELSE 0]]]

\* estimate_layer_ice_content: layer ice from the whole node profile
estimate_layer_ice_content(layer, T) ==
    [l \in Layers |->
        [layer[l] EXCEPT !.ice =
            [f \in FrostAreas |->
                IF \E n \in Nodes : T[n] < 0 THEN layer[l].moist \div 3 ELSE 0]]]

\* find_0_degree_fronts: number of zero crossings of the node profile
find_0_degree_fronts(T) ==
    Cardinality({n \in Nodes : n + 1 \in Nodes /\ (T[n] < 0) # (T[n + 1] < 0)})

\* ---- the conditions of the second loop body ------------------------------
\* variant of DistributeGate: both options required
DistributeGate_Both == options.FULL_ENERGY /\ options.FROZEN_SOIL

\* line 126
DistributeGate == options.FULL_ENERGY \/ options.FROZEN_SOIL

\* variant of FirstVegInit: the latch starts cleared
FirstVegInit_Cleared == FALSE

\* line 102: FIRST_VEG = true
FirstVegInit == TRUE

\* variant of FirstVegLatched: the latch is never cleared
FirstVegLatched_Stuck == TRUE

\* line 113: FIRST_VEG = false
FirstVegLatched == FALSE

\* variant of IsError: the return code is not looked at
IsError_Ignored(flag) == FALSE

\* lines 148, 207, 226: if (ErrorFlag == ERROR)
IsError(flag) == flag = ERROR

\* variant of StabilityGate: FROZEN_SOIL not looked at
StabilityGate_AnySoil == ~options.QUICK_FLUX /\ ~options.IMPLICIT

\* lines 158-159
StabilityGate ==
    (options.FROZEN_SOIL /\ ~options.QUICK_FLUX) /\ ~options.IMPLICIT

\* lines 161-164: 0.5 * Cs / kappa * dz^2, in 1/1000, as a rational
DtThresh(Cs, kappa, dz) == <<Cs * dz * dz, 20 * kappa>>

\* variant of ExceedsThresh: >= instead of >
ExceedsThresh_GE(dt, th) == dt * th[2] >= th[1]

\* line 165: global_param.dt > dt_thresh
ExceedsThresh(dt, th) == dt * th[2] > th[1]

\* variant of UseQuickFlux: the branches exchanged
UseQuickFlux_Inverted == ~options.QUICK_FLUX

\* line 196
UseQuickFlux == options.QUICK_FLUX

\* variant of FrontsGate: FS_ACTIVE not looked at
FrontsGate_AnySoil == ~options.QUICK_FLUX

\* line 233
FrontsGate == ~options.QUICK_FLUX /\ soil_con.FS_ACTIVE

\* ---- first loop nest: derived soil layer variables (lines 68-96) ---------
\* lines 68-75, and line 102 when the loop nest runs out
P1Loop ==
    /\ pc = "p1_loop"
    /\ LET t == NextTile(veg, band) IN
         IF t = LoopEnd
         THEN /\ FIRST_VEG' = FirstVegInit
              /\ veg' = 0
              /\ band' = 0
              /\ pc' = "p2_loop"
         ELSE /\ veg' = t[1]
              /\ band' = t[2]
              /\ pc' = "p1_snapshot"
              /\ UNCHANGED FIRST_VEG
    /\ UNCHANGED <<inputs, soil_con, cell, energy, moist, ice, dt_thresh,
                   ErrorFlag, ran>>

\* variant of Snapshot: the frost-area loop left out, ice never filled
Snapshot_MoistOnly ==
    /\ pc = "p1_snapshot"
    /\ moist' = [moist EXCEPT ![veg][band] =
                    [l \in Layers |-> cell[veg][band].layer[l].moist]]
    /\ ran' = Ran(ran, veg, band, "snapshot")
    /\ pc' = "p1_runoff"
    /\ UNCHANGED <<inputs, soil_con, cell, energy, ice, FIRST_VEG, veg, band,
                   dt_thresh, ErrorFlag>>

\* lines 76-86
Snapshot ==
    /\ pc = "p1_snapshot"
    /\ moist' = [moist EXCEPT ![veg][band] =
                    [l \in Layers |-> cell[veg][band].layer[l].moist]]
    /\ ice' = [ice EXCEPT ![veg][band] =
                  [l \in Layers |-> [f \in FrostAreas |->
                      cell[veg][band].layer[l].ice[f]]]]
    /\ ran' = Ran(ran, veg, band, "snapshot")
    /\ pc' = "p1_runoff"
    /\ UNCHANGED <<inputs, soil_con, cell, energy, FIRST_VEG, veg, band,
                   dt_thresh, ErrorFlag>>

\* variant of ComputeRunoffAndAsat: done only under an energy option
ComputeRunoffAndAsat_EnergyOnly ==
    /\ pc = "p1_runoff"
    /\ IF options.FULL_ENERGY \/ options.FROZEN_SOIL
       THEN /\ cell' = [cell EXCEPT ![veg][band].asat =
                           compute_runoff_and_asat(soil_con, moist[veg][band])]
            /\ ran' = Ran(ran, veg, band, "compute_runoff_and_asat")
       ELSE UNCHANGED <<cell, ran>>
    /\ pc' = "p1_zwt"
    /\ UNCHANGED <<inputs, soil_con, energy, moist, ice, FIRST_VEG, veg, band,
                   dt_thresh, ErrorFlag>>

\* lines 88-91
ComputeRunoffAndAsat ==
    /\ pc = "p1_runoff"
    /\ cell' = [cell EXCEPT ![veg][band].asat =
                   compute_runoff_and_asat(soil_con, moist[veg][band])]
    /\ ran' = Ran(ran, veg, band, "compute_runoff_and_asat")
    /\ pc' = "p1_zwt"
    /\ UNCHANGED <<inputs, soil_con, energy, moist, ice, FIRST_VEG, veg, band,
                   dt_thresh, ErrorFlag>>

\* variant of WrapComputeZwt: the two loop nests fused into one (FIRST_VEG
\* set ahead of it), so that a tile goes on into the second loop body
WrapComputeZwt_FallThrough ==
    /\ pc = "p1_zwt"
    /\ cell' = [cell EXCEPT ![veg][band].zwt =
                   wrap_compute_zwt(soil_con, cell[veg][band])]
    /\ ran' = Ran(ran, veg, band, "wrap_compute_zwt")
    /\ FIRST_VEG' = (IF FIRST_VEG = Uninit THEN TRUE ELSE FIRST_VEG)
    /\ pc' = "p2_first"
    /\ UNCHANGED <<inputs, soil_con, energy, moist, ice, veg, band, dt_thresh,
                   ErrorFlag>>

\* line 92, then band++
WrapComputeZwt ==
    /\ pc = "p1_zwt"
    /\ cell' = [cell EXCEPT ![veg][band].zwt =
                   wrap_compute_zwt(soil_con, cell[veg][band])]
    /\ ran' = Ran(ran, veg, band, "wrap_compute_zwt")
    /\ band' = band + 1
    /\ pc' = "p1_loop"
    /\ UNCHANGED <<inputs, soil_con, energy, moist, ice, FIRST_VEG, veg,
                   dt_thresh, ErrorFlag>>

\* ---- second loop nest: soil thermal node properties (lines 103-242) ------
\* lines 103-110
P2Loop ==
    /\ pc = "p2_loop"
    /\ LET t == NextTile(veg, band) IN
         /\ veg' = t[1]
         /\ band' = t[2]
         /\ pc' = IF t = LoopEnd THEN "done" ELSE "p2_first"
    /\ UNCHANGED <<inputs, soil_con, cell, energy, moist, ice, FIRST_VEG,
                   dt_thresh, ErrorFlag, ran>>

\* lines 112-123
SetNodeParameters ==
    /\ pc = "p2_first"
    /\ IF FIRST_VEG
       THEN /\ FIRST_VEG' = FirstVegLatched
            /\ soil_con' = set_node_parameters(soil_con)
            /\ ran' = Ran(ran, veg, band, "set_node_parameters")
       ELSE UNCHANGED <<FIRST_VEG, soil_con, ran>>
    /\ pc' = "p2_distribute"
    /\ UNCHANGED <<inputs, cell, energy, moist, ice, veg, band, dt_thresh,
                   ErrorFlag>>

\* variant of DistributeNodeMoisture: energy[veg][band].T handed over in the
\* place of the node ice output, so that the node ice lands in T
DistributeNodeMoisture_IntoT ==
    /\ pc = "p2_distribute"
    /\ IF DistributeGate
       THEN \E ret \in {OK, ERROR} :
              /\ energy' = [energy EXCEPT ![veg][band] =
                               LET out == distribute_node_moisture_properties(
                                              energy[veg][band], soil_con,
                                              moist[veg][band])
                               IN [out EXCEPT !.T = out.ice,
                                              !.ice = energy[veg][band].ice]]
              /\ ErrorFlag' = ret
              /\ ran' = Ran(ran, veg, band,
                            "distribute_node_moisture_properties")
              /\ pc' = IF IsError(ret) THEN log_err ELSE "p2_stability"
       ELSE /\ pc' = "p2_stability"
            /\ UNCHANGED <<energy, ErrorFlag, ran>>
    /\ UNCHANGED <<inputs, soil_con, cell, moist, ice, FIRST_VEG, veg, band,
                   dt_thresh>>

\* lines 125-152
DistributeNodeMoisture ==
    /\ pc = "p2_distribute"
    /\ IF DistributeGate
       THEN \E ret \in {OK, ERROR} :
              /\ energy' = [energy EXCEPT ![veg][band] =
                               distribute_node_moisture_properties(
                                   energy[veg][band], soil_con,
                                   moist[veg][band])]
              /\ ErrorFlag' = ret
              /\ ran' = Ran(ran, veg, band,
                            "distribute_node_moisture_properties")
              /\ pc' = IF IsError(ret) THEN log_err ELSE "p2_stability"
       ELSE /\ pc' = "p2_stability"
            /\ UNCHANGED <<energy, ErrorFlag, ran>>
    /\ UNCHANGED <<inputs, soil_con, cell, moist, ice, FIRST_VEG, veg, band,
                   dt_thresh>>

\* variant of StabilityCheck: the advisory is a warning, control goes on
StabilityCheck_Warn ==
    /\ pc = "p2_stability"
    /\ IF (options.FROZEN_SOIL /\ ~options.QUICK_FLUX) /\ ~options.IMPLICIT
       THEN LET th == <<energy[veg][band].Cs_node[1] * soil_con.dz_node[1]
                            * soil_con.dz_node[1],
                        20 * energy[veg][band].kappa_node[1]>> IN
              /\ dt_thresh' = th
              /\ ran' = IF global_param.dt * th[2] > th[1]
                        THEN Ran(Ran(ran, veg, band, "stability_check"),
                                 veg, band, "stability_advisory")
                        ELSE Ran(ran, veg, band, "stability_check")
       ELSE UNCHANGED <<dt_thresh, ran>>
    /\ pc' = "p2_writeback"
    /\ UNCHANGED <<inputs, soil_con, cell, energy, moist, ice, FIRST_VEG, veg,
                   band, ErrorFlag>>

\* lines 154-183
StabilityCheck ==
    /\ pc = "p2_stability"
    /\ IF StabilityGate
       THEN LET th == DtThresh(energy[veg][band].Cs_node[1],
                               energy[veg][band].kappa_node[1],
                               soil_con.dz_node[1]) IN
              /\ dt_thresh' = th
              /\ IF ExceedsThresh(global_param.dt, th)
                 THEN /\ ran' = Ran(Ran(ran, veg, band, "stability_check"),
                                     veg, band, "stability_advisory")
                      /\ pc' = log_err
                 ELSE /\ ran' = Ran(ran, veg, band, "stability_check")
                      /\ pc' = "p2_writeback"
       ELSE /\ pc' = "p2_writeback"
            /\ UNCHANGED <<dt_thresh, ran>>
    /\ UNCHANGED <<inputs, soil_con, cell, energy, moist, ice, FIRST_VEG, veg,
                   band, ErrorFlag>>

\* variant of WriteBack: the layer index left at 0 on the right-hand sides
WriteBack_FirstLayer ==
    /\ pc = "p2_writeback"
    /\ cell' = [cell EXCEPT ![veg][band].layer =
                   [l \in Layers |->
                       [moist |-> moist[veg][band][0],
                        ice |-> [f \in FrostAreas |-> ice[veg][band][0][f]]]]]
    /\ ran' = Ran(ran, veg, band, "writeback")
    /\ pc' = "p2_ice"
    /\ UNCHANGED <<inputs, soil_con, energy, moist, ice, FIRST_VEG, veg, band,
                   dt_thresh, ErrorFlag>>

\* lines 185-195
WriteBack ==
    /\ pc = "p2_writeback"
    /\ cell' = [cell EXCEPT ![veg][band].layer =
                   [l \in Layers |->
                       [moist |-> moist[veg][band][l],
                        ice |-> [f \in FrostAreas |-> ice[veg][band][l][f]]]]]
    /\ ran' = Ran(ran, veg, band, "writeback")
    /\ pc' = "p2_ice"
    /\ UNCHANGED <<inputs, soil_con, energy, moist, ice, FIRST_VEG, veg, band,
                   dt_thresh, ErrorFlag>>

\* lines 196-230
EstimateLayerIce ==
    /\ pc = "p2_ice"
    /\ \E ret \in {OK, ERROR} :
         /\ LET e == energy[veg][band]
                out == IF UseQuickFlux
                       THEN estimate_layer_ice_content_quick_flux(
                                cell[veg][band].layer, e.T[0], e.T[1])
                       ELSE estimate_layer_ice_content(
                                cell[veg][band].layer, e.T)
                name == IF UseQuickFlux
                        THEN "estimate_layer_ice_content_quick_flux"
                        ELSE "estimate_layer_ice_content"
            IN /\ cell' = [cell EXCEPT ![veg][band].layer = out]
               /\ ran' = Ran(ran, veg, band, name)
         /\ ErrorFlag' = ret
         /\ pc' = IF IsError(ret) THEN log_err ELSE "p2_fronts"
    /\ UNCHANGED <<inputs, soil_con, energy, moist, ice, FIRST_VEG, veg, band,
                   dt_thresh>>

\* lines 232-238, then band++
FindFronts ==
    /\ pc = "p2_fronts"
    /\ IF FrontsGate
       THEN /\ energy' = [energy EXCEPT ![veg][band].fronts =
                             find_0_degree_fronts(energy[veg][band].T)]
            /\ ran' = Ran(ran, veg, band, "find_0_degree_fronts")
       ELSE UNCHANGED <<energy, ran>>
    /\ band' = band + 1
    /\ pc' = "p2_loop"
    /\ UNCHANGED <<inputs, soil_con, cell, moist, ice, FIRST_VEG, veg,
                   dt_thresh, ErrorFlag>>

Next ==
    \/ P1Loop
    \/ Snapshot
    \/ ComputeRunoffAndAsat
    \/ WrapComputeZwt
    \/ P2Loop
    \/ SetNodeParameters
    \/ DistributeNodeMoisture
    \/ StabilityCheck
    \/ WriteBack
    \/ EstimateLayerIce
    \/ FindFronts

Spec == Init /\ [][Next]_vars

\* ---- queries on the history ----------------------------------------------
Pass1Steps == {"snapshot", "compute_runoff_and_asat", "wrap_compute_zwt"}

Pass2Steps == Steps \ Pass1Steps

Estimators == {"estimate_layer_ice_content_quick_flux",
               "estimate_layer_ice_content"}

\* the positions inside the first loop nest
Pass1Pcs == {"p1_loop", "p1_snapshot", "p1_runoff", "p1_zwt"}

\* number of times step s ran for tile (v, b)
N(s, v, b) == CopiesIn(<<s, v, b>>, ran)

\* number of ice-content estimator calls made for tile (v, b)
NEst(v, b) ==
    N("estimate_layer_ice_content_quick_flux", v, b) +
    N("estimate_layer_ice_content", v, b)

\* the entries of the history that are runs of step s, one for each tile
RunsOf(s) == {e \in DOMAIN ran : e[1] = s}

\* the second pass has started
Pass2Started == \E e \in DOMAIN ran : e[1] \in Pass2Steps

\* nothing ran for tile (v, b) and all its fields hold their values at entry
Untouched(v, b) ==
    /\ cell[v][b] = InitCell[v][b]
    /\ energy[v][b] = InitEnergy[v][b]
    /\ \A e \in DOMAIN ran : ~(e[2] = v /\ e[3] = b)

\* nothing of the second pass ran for tile (v, b)
NoPass2(v, b) ==
    /\ \A e \in DOMAIN ran : ~(e[1] \in Pass2Steps /\ e[2] = v /\ e[3] = b)
    /\ energy[v][b] = InitEnergy[v][b]
    /\ cell[v][b].layer = InitCell[v][b].layer

\* (v, b) comes before (v2, b2) in vegetation-major, band-minor order
Before(v, b, v2, b2) == v < v2 \/ (v = v2 /\ b < b2)

\* every step that applies to tile (v, b) ran exactly once, and the fields
\* that only this call computes no longer hold their values at entry
StepsOnce(v, b) ==
    /\ N("snapshot", v, b) = 1
    /\ N("compute_runoff_and_asat", v, b) = 1
    /\ N("wrap_compute_zwt", v, b) = 1
    /\ cell[v][b].asat # InitCell[v][b].asat
    /\ cell[v][b].zwt # InitCell[v][b].zwt
    /\ N("distribute_node_moisture_properties", v, b) =
           (IF options.FULL_ENERGY \/ options.FROZEN_SOIL THEN 1 ELSE 0)
    /\ (options.FULL_ENERGY \/ options.FROZEN_SOIL) =>
           /\ energy[v][b].moist # InitEnergy[v][b].moist
           /\ energy[v][b].ice # InitEnergy[v][b].ice
           /\ energy[v][b].Cs_node # InitEnergy[v][b].Cs_node
    /\ N("writeback", v, b) = 1
    /\ NEst(v, b) = 1
    /\ N("find_0_degree_fronts", v, b) =
           (IF ~options.QUICK_FLUX /\ soil_con.FS_ACTIVE THEN 1 ELSE 0)
    /\ (~options.QUICK_FLUX /\ soil_con.FS_ACTIVE) =>
           energy[v][b].fronts # InitEnergy[v][b].fronts

C3_ErrorAborts ==
    ErrorFlag = ERROR =>
        /\ pc = "exit"
        /\ N("find_0_degree_fronts", veg, band) = 0
        /\ \/ NEst(veg, band) = 1
           \/ /\ N("distribute_node_moisture_properties", veg, band) = 1
              /\ N("stability_check", veg, band) = 0
              /\ N("writeback", veg, band) = 0
              /\ NEst(veg, band) = 0
              /\ cell[veg][band].layer = InitCell[veg][band].layer
        /\ \A v \in Vegs, b \in Bands :
              Before(veg, band, v, b) => NoPass2(v, b)

\* an estimator returned ERROR for a tile that has a selected tile after it
C3_Witness ==
    /\ ErrorFlag = ERROR
    /\ NEst(veg, band) = 1
    /\ \E v \in Vegs, b \in Bands :
          /\ Before(veg, band, v, b)
          /\ veg_con[v].Cv > 0 /\ soil_con.AreaFract[b] > 0

\* ---- C4 -------------------------------------------------------------------
\* C4: set_node_parameters runs at most once in a call, for the first tile
\* with Cv > 0 and AreaFract > 0 in vegetation-major order; as soon as the
\* second pass has done anything it has run (it is the first thing the
\* second pass does); the node parameters it stored are still the ones in
\* place for every tile processed afterwards; and a finished call with at
\* least one such tile has run it.
C4_SingleParameterization ==
    /\ \A e \in DOMAIN ran :
          e[1] = "set_node_parameters" =>
            /\ ran[e] = 1
            /\ veg_con[e[2]].Cv > 0
            /\ soil_con.AreaFract[e[3]] > 0
            /\ \A v \in Vegs, b \in Bands :
                  (veg_con[v].Cv > 0 /\ soil_con.AreaFract[b] > 0) =>
                      ~Before(v, b, e[2], e[3])
            /\ \A e2 \in DOMAIN ran : e2[1] = "set_node_parameters" => e2 = e
            /\ ~FIRST_VEG
            /\ soil_con.max_moist_node =
                   [n \in Nodes |->
                       10 * soil_con.depth[IF n < Nlayer THEN n ELSE Nlayer - 1]]
    /\ Pass2Started => \E e \in DOMAIN ran : e[1] = "set_node_parameters"
    /\ (pc = "done" /\ \E v \in Vegs, b \in Bands :
                          veg_con[v].Cv > 0 /\ soil_con.AreaFract[b] > 0) =>
          \E e \in DOMAIN ran : e[1] = "set_node_parameters"

\* a finished call that processed two tiles, the first of them not tile (0, 0)
C4_Witness ==
    /\ pc = "done"
    /\ Cardinality(RunsOf("set_node_parameters")) = 1
    /\ Cardinality(RunsOf("writeback")) >= 2
    /\ N("set_node_parameters", 0, 0) = 0

\* ---- C5 -------------------------------------------------------------------
\* C5: whenever distribute_node_moisture_properties or
\* estimate_layer_ice_content (the full variant) has been called, or is
\* about to be, set_node_parameters has run and the node parameters are
\* stored.
C5_ParameterizeBeforeUse ==
    /\ \A e \in DOMAIN ran :
          e[1] \in {"distribute_node_moisture_properties",
                    "estimate_layer_ice_content"} =>
              \E e2 \in DOMAIN ran : e2[1] = "set_node_parameters"
    /\ (pc \in {"p2_distribute", "p2_ice"}) =>
          /\ \E e2 \in DOMAIN ran : e2[1] = "set_node_parameters"
          /\ soil_con.max_moist_node # [n \in Nodes |-> 0]

\* both users of the node parameters have run
C5_Witness ==
    /\ RunsOf("distribute_node_moisture_properties") # {}
    /\ RunsOf("estimate_layer_ice_content") # {}

C7_VariantsExclusive ==
    \A e \in DOMAIN ran :
        LET v == e[2]
            b == e[3]
        IN /\ e[1] = "estimate_layer_ice_content_quick_flux" =>
                 (options.QUICK_FLUX /\ ran[e] = 1 /\ NEst(v, b) = 1)
           /\ e[1] = "estimate_layer_ice_content" =>
                 (~options.QUICK_FLUX /\ ran[e] = 1 /\ NEst(v, b) = 1)
           /\ (e[1] = "writeback" /\ ~(pc = "p2_ice" /\ veg = v /\ band = b)) =>
                 NEst(v, b) = 1

\* a finished call in which two tiles went through the quick-flux estimator
C7_Witness ==
    /\ pc = "done"
    /\ Cardinality(RunsOf("estimate_layer_ice_content_quick_flux")) >= 2

\* ---- C8 -------------------------------------------------------------------
\* C8: no step runs twice for a tile; a step has run for a tile only if the
\* step before it in its pass has (first pass: snapshot ->
\* compute_runoff_and_asat -> wrap_compute_zwt; second pass: distribute ->
\* stability check -> write-back -> ice estimator -> find_0_degree_fronts,
\* distribute and the stability check where the options call for them); a
\* tile other than the one the loops are at is through the pass of every
\* step that has run for it, so no step of another tile comes between the
\* steps of a tile; and once anything of the second pass has run, the first
\* pass has done its three steps for every tile with Cv > 0 and
\* AreaFract > 0.
C8_StepOrder ==
    /\ \A e \in DOMAIN ran :
          LET s == e[1]
              v == e[2]
              b == e[3]
          IN /\ ran[e] = 1
             /\ s = "compute_runoff_and_asat" => N("snapshot", v, b) = 1
             /\ s = "wrap_compute_zwt" => N("compute_runoff_and_asat", v, b) = 1
             /\ s = "stability_check" =>
                   N("distribute_node_moisture_properties", v, b) = 1
             /\ s = "writeback" =>
                   /\ N("distribute_node_moisture_properties", v, b) =
                          (IF options.FULL_ENERGY \/ options.FROZEN_SOIL
                           THEN 1 ELSE 0)
                   /\ N("stability_check", v, b) =
                          (IF options.FROZEN_SOIL /\ ~options.QUICK_FLUX
                                  /\ ~options.IMPLICIT
                           THEN 1 ELSE 0)
             /\ s \in Estimators => (N("writeback", v, b) = 1 /\ NEst(v, b) = 1)
             /\ s = "find_0_degree_fronts" => NEst(v, b) = 1
             /\ (~(veg = v /\ band = b) /\ s \in Pass1Steps) =>
                   N("wrap_compute_zwt", v, b) = 1
             /\ (~(veg = v /\ band = b) /\ s \in Pass2Steps) =>
                   /\ NEst(v, b) = 1
                   /\ N("find_0_degree_fronts", v, b) =
                          (IF ~options.QUICK_FLUX /\ soil_con.FS_ACTIVE
                           THEN 1 ELSE 0)
    /\ Pass2Started =>
          \A v \in Vegs, b \in Bands :
              (veg_con[v].Cv > 0 /\ soil_con.AreaFract[b] > 0) =>
                  /\ N("snapshot", v, b) = 1
                  /\ N("compute_runoff_and_asat", v, b) = 1
                  /\ N("wrap_compute_zwt", v, b) = 1

\* a finished call in which two tiles went through all five second-pass steps
C8_Witness ==
    /\ pc = "done"
    /\ Cardinality(RunsOf("distribute_node_moisture_properties")) >= 2
    /\ Cardinality(RunsOf("stability_check")) >= 2
    /\ Cardinality(RunsOf("find_0_degree_fronts")) >= 2

\* ---- C9 -------------------------------------------------------------------
\* C9: whatever the options, compute_runoff_and_asat and wrap_compute_zwt run
\* at most once for a tile, and once the first pass is over each has run
\* exactly once, and stored its result, for every tile with Cv > 0 and
\* AreaFract > 0.
C9_RunoffUnconditional ==
    /\ \A e \in DOMAIN ran :
          e[1] \in {"compute_runoff_and_asat", "wrap_compute_zwt"} =>
              ran[e] = 1
    /\ pc \notin Pass1Pcs =>
          \A v \in Vegs, b \in Bands :
              (veg_con[v].Cv > 0 /\ soil_con.AreaFract[b] > 0) =>
                  /\ N("compute_runoff_and_asat", v, b) = 1
                  /\ N("wrap_compute_zwt", v, b) = 1
                  /\ cell[v][b].asat # InitCell[v][b].asat
                  /\ cell[v][b].zwt # InitCell[v][b].zwt

\* the water-balance quantities were computed with every energy option off
C9_Witness ==
    /\ pc = "done"
    /\ ~options.FULL_ENERGY /\ ~options.FROZEN_SOIL /\ ~options.QUICK_FLUX
    /\ ~options.IMPLICIT /\ ~soil_con.FS_ACTIVE
    /\ \E v \in Vegs, b \in Bands :
          N("compute_runoff_and_asat", v, b) = 1 /\
          N("wrap_compute_zwt", v, b) = 1

\* ---- C10 ------------------------------------------------------------------
\* C10: distribute_node_moisture_properties runs at most once for a tile and
\* only for a tile with Cv > 0 and AreaFract > 0, and only with FULL_ENERGY
\* or FROZEN_SOIL set; with one of them set it has run for every tile that
\* is past that step; with both off no tile's node moisture, node ice,
\* kappa_node or Cs_node is changed.
C10_DistributeGating ==
    /\ \A e \in DOMAIN ran :
          /\ e[1] = "distribute_node_moisture_properties" =>
                /\ ran[e] = 1
                /\ veg_con[e[2]].Cv > 0 /\ soil_con.AreaFract[e[3]] > 0
                /\ options.FULL_ENERGY \/ options.FROZEN_SOIL
          /\ (e[1] \in {"stability_check", "writeback"} /\
              (options.FULL_ENERGY \/ options.FROZEN_SOIL)) =>
                N("distribute_node_moisture_properties", e[2], e[3]) = 1
    /\ (~options.FULL_ENERGY /\ ~options.FROZEN_SOIL) =>
          \A v \in Vegs, b \in Bands :
              /\ energy[v][b].moist = InitEnergy[v][b].moist
              /\ energy[v][b].ice = InitEnergy[v][b].ice
              /\ energy[v][b].kappa_node = InitEnergy[v][b].kappa_node
              /\ energy[v][b].Cs_node = InitEnergy[v][b].Cs_node

\* the function ran for a tile with FULL_ENERGY alone set
C10_Witness ==
    /\ options.FULL_ENERGY /\ ~options.FROZEN_SOIL
    /\ \E v \in Vegs, b \in Bands :
          /\ N("distribute_node_moisture_properties", v, b) = 1
          /\ N("writeback", v, b) = 1
          /\ energy[v][b].Cs_node # InitEnergy[v][b].Cs_node

\* ---- C11 ------------------------------------------------------------------
\* C11: find_0_degree_fronts runs at most once for a tile, only for a tile
\* with Cv > 0 and AreaFract > 0, only with QUICK_FLUX off and FS_ACTIVE set,
\* and only after the tile's ice-content estimator (the full variant) has
\* returned without error; with QUICK_FLUX off and FS_ACTIVE set it has run
\* for every tile the second pass has left behind, whatever FULL_ENERGY,
\* FROZEN_SOIL and IMPLICIT are; otherwise no tile's fronts are changed.
C11_FrontsGating ==
    /\ \A e \in DOMAIN ran :
          LET v == e[2]
              b == e[3]
          IN /\ e[1] = "find_0_degree_fronts" =>
                   /\ ran[e] = 1
                   /\ veg_con[v].Cv > 0 /\ soil_con.AreaFract[b] > 0
                   /\ ~options.QUICK_FLUX /\ soil_con.FS_ACTIVE
                   /\ N("estimate_layer_ice_content", v, b) = 1
                   /\ ~(ErrorFlag = ERROR /\ veg = v /\ band = b)
             /\ (e[1] \in Estimators /\ ~(veg = v /\ band = b) /\
                 ~options.QUICK_FLUX /\ soil_con.FS_ACTIVE) =>
                   N("find_0_degree_fronts", v, b) = 1
    /\ pc = "p2_fronts" => (ErrorFlag = OK /\ NEst(veg, band) = 1)
    /\ (options.QUICK_FLUX \/ ~soil_con.FS_ACTIVE) =>
          \A v \in Vegs, b \in Bands :
              energy[v][b].fronts = InitEnergy[v][b].fronts

\* the fronts were located with FULL_ENERGY and FROZEN_SOIL off, IMPLICIT on
C11_Witness ==
    /\ pc = "done"
    /\ ~options.FULL_ENERGY /\ ~options.FROZEN_SOIL /\ options.IMPLICIT
    /\ \E v \in Vegs, b \in Bands :
          /\ N("find_0_degree_fronts", v, b) = 1
          /\ energy[v][b].fronts # InitEnergy[v][b].fronts

\* ---- C12 ------------------------------------------------------------------
\* C12: steps run only for tiles with Cv > 0 and AreaFract > 0, over
\* vegetation indices 0 .. Nveg (index Nveg included) and band indices
\* 0 .. SNOW_BAND - 1; in each pass the tiles a step has run for come no later
\* than the position of the loops, and every such tile that comes before the
\* position of the loops has been taken through the pass, so that both
\* passes take the same tiles in vegetation-major, band-minor order; a
\* finished call has taken every such tile through both passes; and with no
\* such tile nothing runs and nothing is written, set_node_parameters
\* included.
C12_StableEnumeration ==
    /\ \A e \in DOMAIN ran :
          /\ veg_con[e[2]].Cv > 0 /\ soil_con.AreaFract[e[3]] > 0
          /\ (e[1] \in Pass2Steps \/ pc \in Pass1Pcs) =>
                ~Before(veg, band, e[2], e[3])
    /\ \A v \in Vegs, b \in Bands :
          (veg_con[v].Cv > 0 /\ soil_con.AreaFract[b] > 0) =>
              /\ Before(v, b, veg, band) =>
                    IF pc \in Pass1Pcs
                    THEN N("snapshot", v, b) = 1 /\ N("wrap_compute_zwt", v, b) = 1
                    ELSE N("writeback", v, b) = 1 /\ NEst(v, b) = 1
              /\ pc = "done" =>
                    (N("snapshot", v, b) = 1 /\ N("writeback", v, b) = 1)
    /\ (\A v \in Vegs, b \in Bands :
            ~(veg_con[v].Cv > 0 /\ soil_con.AreaFract[b] > 0)) =>
          /\ ran = EmptyBag
          /\ cell = InitCell
          /\ energy = InitEnergy
          /\ soil_con.max_moist_node = [n \in Nodes |-> 0]

\* a finished call that took a tile of vegetation index 0 and a tile of
\* vegetation index Nveg through both passes, and skipped a band in between
C12_Witness ==
    /\ pc = "done"
    /\ \E b \in Bands, b2 \in Bands, b3 \in Bands :
          /\ N("snapshot", 0, b) = 1 /\ N("writeback", 0, b) = 1
          /\ N("snapshot", Nveg, b2) = 1 /\ N("writeback", Nveg, b2) = 1
          /\ soil_con.AreaFract[b3] <= 0

\* ---- C13 ------------------------------------------------------------------
\* C13: in every state of a call, finished, ended by log_err or under way,
\* and under every combination of the options, the node temperatures T of
\* every tile are the ones the tile had at entry.
C13_TemperaturesReadOnly ==
    \A v \in Vegs, b \in Bands : energy[v][b].T = InitEnergy[v][b].T

\* a finished call in which all three readers of T ran for a tile
C13_Witness ==
    /\ pc = "done"
    /\ \E v \in Vegs, b \in Bands :
          /\ N("distribute_node_moisture_properties", v, b) = 1
          /\ N("estimate_layer_ice_content", v, b) = 1
          /\ N("find_0_degree_fronts", v, b) = 1
          /\ energy[v][b].T = InitEnergy[v][b].T
          /\ energy[v][b].ice # InitEnergy[v][b].ice

\* ---- C14 ------------------------------------------------------------------
\* C14: once the first pass is over, the scratch moist and ice of every tile
\* with Cv > 0 and AreaFract > 0 hold, element by element, the layer
\* moisture and ice the tile had at entry; these are the layer moistures
\* handed to distribute_node_moisture_properties (seen in the node moisture
\* it stores), and when the tile's ice-content estimator is about to be
\* called the tile's layers hold exactly their values at entry.
C14_SnapshotRoundTrip ==
    /\ pc \notin Pass1Pcs =>
          \A v \in Vegs, b \in Bands :
              (veg_con[v].Cv > 0 /\ soil_con.AreaFract[b] > 0) =>
                  /\ moist[v][b] =
                         [l \in Layers |-> InitCell[v][b].layer[l].moist]
                  /\ ice[v][b] =
                         [l \in Layers |-> InitCell[v][b].layer[l].ice]
    /\ pc = "p2_ice" => cell[veg][band].layer = InitCell[veg][band].layer
    /\ \A e \in DOMAIN ran :
          e[1] = "distribute_node_moisture_properties" =>
              energy[e[2]][e[3]].moist =
                  [n \in Nodes |->
                      InitCell[e[2]][e[3]].layer[
                          IF n < Nlayer THEN n ELSE Nlayer - 1].moist]

\* the estimator of a tile is about to be called, after the node properties
\* of the tile were computed and after the estimator of an earlier tile has
\* changed that tile's layer ice
C14_Witness ==
    /\ pc = "p2_ice"
    /\ N("distribute_node_moisture_properties", veg, band) = 1
    /\ N("writeback", veg, band) = 1
    /\ \E v \in Vegs, b \in Bands :
          /\ NEst(v, b) = 1
          /\ cell[v][b].layer # InitCell[v][b].layer

\* ---- C15 ------------------------------------------------------------------
\* the compile-time maxima that the configured counts do not exceed, the
\* tightest ones (equal to the counts) and those with one to spare
Capacities ==
    [MAX_VEG : Nveg .. Nveg + 1,
     MAX_BANDS : SNOW_BAND .. SNOW_BAND + 1,
     MAX_LAYERS : Nlayer .. Nlayer + 1,
     MAX_FROST_AREAS : Nfrost .. Nfrost + 1]

\* C15 as stated: whatever the maxima, as long as vegetat_type_num <=
\* MAX_VEG, SNOW_BAND <= MAX_BANDS, Nlayer <= MAX_LAYERS and Nfrost <=
\* MAX_FROST_AREAS, every element of the scratch arrays that a step reads or
\* writes lies inside the arrays as declared.
C15_WithinCapacity ==
    \A cap \in Capacities :
        \A e \in DOMAIN ran :
            e[1] \in ScratchSteps =>
                \A l \in Layers, f \in FrostAreas :
                    InScratch(cap, e[2], e[3], l, f)

\* what holds in place of C15: with one more row than vegetat_type_num
\* (vegetat_type_num < MAX_VEG) every element read or written lies inside
\* the arrays as declared.
C15_RoomForBareSoil ==
    \A cap \in {c \in Capacities : c.MAX_VEG >= Nveg + 1} :
        \A e \in DOMAIN ran :
            e[1] \in ScratchSteps =>
                \A l \in Layers, f \in FrostAreas :
                    InScratch(cap, e[2], e[3], l, f)

\* the first pass has copied the layers of a tile of vegetation index
\* Nveg = vegetat_type_num into the scratch arrays
C15_Witness ==
    \E b \in Bands :
        /\ N("snapshot", Nveg, b) = 1
        /\ moist[Nveg][b] = [l \in Layers |-> InitCell[Nveg][b].layer[l].moist]

\* ---- C16 ------------------------------------------------------------------
\* C16: when the second pass is about to read the scratch arrays for a tile
\* (to hand moist[veg][band] to distribute_node_moisture_properties, or in
\* the write-back) the first pass has run the snapshot for that tile and
\* every element moist[veg][band][l] and ice[veg][band][l][f] holds a value
\* stored there; so every tile the second pass has read them for was
\* snapshotted, and no layer field written back is uninitialised.
C16_NoUninitialisedRead ==
    /\ pc \in {"p2_distribute", "p2_writeback"} =>
          /\ N("snapshot", veg, band) = 1
          /\ \A l \in Layers :
                /\ moist[veg][band][l] # UninitDouble
                /\ \A f \in FrostAreas : ice[veg][band][l][f] # UninitDouble
    /\ \A e \in DOMAIN ran :
          /\ e[1] \in {"distribute_node_moisture_properties", "writeback"} =>
                N("snapshot", e[2], e[3]) = 1
          /\ e[1] = "writeback" =>
                \A l \in Layers :
                    /\ cell[e[2]][e[3]].layer[l].moist # UninitDouble
                    /\ \A f \in FrostAreas :
                          cell[e[2]][e[3]].layer[l].ice[f] # UninitDouble

\* the write-back of a tile is about to read its scratch elements, filled by
\* the first pass, while those of a tile that was passed over were never
\* filled
C16_Witness ==
    /\ pc = "p2_writeback"
    /\ N("distribute_node_moisture_properties", veg, band) = 1
    /\ moist[veg][band] = [l \in Layers |-> InitCell[veg][band].layer[l].moist]
    /\ \E v \in Vegs, b \in Bands :
          moist[v][b] = [l \in Layers |-> UninitDouble]

\* ---- C17 ------------------------------------------------------------------
\* C17: when the stability check of a tile is about to be evaluated
\* (FROZEN_SOIL on, QUICK_FLUX off, IMPLICIT off, FULL_ENERGY either way),
\* distribute_node_moisture_properties has run for that tile and returned
\* without error; for every tile the check has been evaluated for,
\* distribute_node_moisture_properties has run and Cs_node[1] and
\* kappa_node[1] are the values it stored, no longer those at entry; and the
\* threshold of the tile the loops are at was computed from them.
C17_FreshNodeProperties ==
    /\ (pc = "p2_stability" /\ options.FROZEN_SOIL /\ ~options.QUICK_FLUX
            /\ ~options.IMPLICIT) =>
          /\ N("distribute_node_moisture_properties", veg, band) = 1
          /\ ErrorFlag = OK
    /\ \A e \in DOMAIN ran :
          e[1] = "stability_check" =>
              LET v == e[2]
                  b == e[3]
              IN /\ N("distribute_node_moisture_properties", v, b) = 1
                 /\ energy[v][b].Cs_node[1] = soil_con.soil_density
                 /\ energy[v][b].Cs_node[1] # InitEnergy[v][b].Cs_node[1]
                 /\ energy[v][b].kappa_node[1] =
                        (IF energy[v][b].T[1] < 0 THEN 2 * soil_con.quartz
                                                  ELSE soil_con.quartz)
                 /\ (veg = v /\ band = b) =>
                        dt_thresh =
                            <<soil_con.soil_density * soil_con.dz_node[1]
                                  * soil_con.dz_node[1],
                              20 * energy[v][b].kappa_node[1]>>

\* the check was evaluated and passed with FROZEN_SOIL alone switching the
\* node properties on, and the heat capacity it read is the stored one
C17_Witness ==
    /\ pc = "p2_writeback"
    /\ ~options.FULL_ENERGY /\ options.FROZEN_SOIL
    /\ N("stability_check", veg, band) = 1
    /\ N("distribute_node_moisture_properties", veg, band) = 1
    /\ energy[veg][band].Cs_node[1] # InitEnergy[veg][band].Cs_node[1]

====
